---- MODULE Spec2Model ----
(***************************************************************************)
(* Model of the Switch transmission / local T&D formulation:               *)
(*   switch_model/transmission/transport/build.py                          *)
(*   switch_model/transmission/local_td.py                                 *)
(*   switch_model/balancing/unserved_load.py                               *)
(*   switch_model/wecc/get_inputs/get_inputs.py                            *)
(* The input tables are the initial state; the callbacks of the modules    *)
(* (define_dynamic_lists, define_components, define_dynamic_components)    *)
(* are the actions; the rules of the Pyomo components are operators over   *)
(* the input tables and the values of the decision variables.              *)
(*                                                                         *)
(* Units.  Power is in MW (integers).  distribution_loss_rate is in        *)
(* 1/Scale, and every balance term is carried multiplied by Scale so that  *)
(* W * (1 - loss) stays exact.  Money rates are carried in 1/CrfScale, the  *)
(* per-line multipliers (derating, terrain) in 1/MultScale.                *)
(***************************************************************************)
EXTENDS Integers, Sequences, FiniteSets, Bags, TLC

VARIABLES
    \* ---- input tables (never change after Init) ----
    module_list,                  \* modules taking part in this model
    LOAD_ZONES, PERIODS, TIMEPOINTS, tp_period,
    TRANSMISSION_LINES,           \* ordered, as read from transmission_lines.csv
    trans_lz1, trans_lz2,
    existing_trans_cap, trans_new_build_allowed,
    trans_capital_cost_per_mw_km, trans_length_km, interest_rate,
    trans_derating_factor, trans_terrain_multiplier, trans_lifetime_yrs,
    lost_load_cost,               \* rows of lost_load_cost.csv: <<>> or <<value>>
    existing_local_td, local_td_annual_cost_per_mw, distribution_loss_rate,
    zone_expected_coincident_peak_demand,
    der_mw,                       \* values of the terms of the modules outside this repository
    \* ---- construction state ----
    called,                       \* callbacks that have run, <<module, callback>>
    stage,                        \* "abstract" | "instance" | "solved" | "error"
    Zone_Power_Injections, Zone_Power_Withdrawals,
    Distributed_Power_Injections, Distributed_Power_Withdrawals,
    Cost_Components_Per_Period, Cost_Components_Per_TP,
    \* ---- decision variables (values after the solve) ----
    BuildTx, BuildLocalTD, WithdrawFromCentralGrid, UnservedLoad,
    \* ---- files written after the solve ----
    transmission_csv,             \* rows of transmission.csv, <<>> until written
    \* ---- get_inputs.py: one process that exports scenarios ----
    db_transmission_lines,        \* rows <<start_load_zone_id, end_load_zone_id>>
    config,                       \* the scenarios of the calls still to come
    params,                       \* <<>>, or <<scenario of the latest call>>
    modules,                      \* the module-level list
    modules_txt,                  \* lines of modules.txt, <<>> until written
    transmission_lines_csv        \* rows of transmission_lines.csv

inputs == <<module_list, LOAD_ZONES, PERIODS, TIMEPOINTS, tp_period,
            TRANSMISSION_LINES, trans_lz1, trans_lz2, existing_trans_cap,
            trans_new_build_allowed, trans_capital_cost_per_mw_km,
            trans_length_km, interest_rate, trans_derating_factor,
            trans_terrain_multiplier, trans_lifetime_yrs, lost_load_cost,
            existing_local_td, local_td_annual_cost_per_mw,
            distribution_loss_rate, zone_expected_coincident_peak_demand,
            der_mw>>

lists == <<Zone_Power_Injections, Zone_Power_Withdrawals,
           Distributed_Power_Injections, Distributed_Power_Withdrawals,
           Cost_Components_Per_Period, Cost_Components_Per_TP>>

solution == <<BuildTx, BuildLocalTD, WithdrawFromCentralGrid, UnservedLoad>>

reports == <<transmission_csv>>

exporter == <<db_transmission_lines, config, params, modules, modules_txt,
              transmission_lines_csv>>

vars == <<inputs, called, stage, lists, solution, reports, exporter>>

----------------------------------------------------------------------------
\* Bounds of the model.

MaxLines == 2        \* at most this many rows in transmission_lines.csv
NumPeriods == 2      \* investment periods 1..NumPeriods of the ledger tables
MaxBuild == 2        \* a build variable is tried at -5, 0, 5, .. 5*MaxBuild MW
MaxFlow == 3         \* a flow variable is tried at -5, 0, 5, .. 5*MaxFlow MW
MaxRate == 8         \* interest_rate is tried at 0 .. MaxRate percent
MaxLifetime == 25    \* trans_lifetime_yrs is tried at 1 .. MaxLifetime years
MaxDbRows == 2       \* at most this many rows in the table transmission_lines
MaxCalls == 2        \* at most this many calls of query_db in one process

Zones == {"A", "B", "C"}
LineIds == <<"T1", "T2", "T3">>

\* The values a solver may try for a variable, before its domain is applied.
BuildValues == {5 * k : k \in -1..MaxBuild}
FlowValues == {5 * k : k \in -1..MaxFlow}

\* Module names.
BUILD == "switch_model.transmission.transport.build"
LOCAL_TD == "switch_model.transmission.local_td"
UNSERVED_LOAD == "switch_model.balancing.unserved_load"

\* Modules outside this repository that register a term of the distributed
\* node in their define_components, and the term each registers.
ExternalModules == {"der_injection", "der_withdrawal"}
ExternalTerm ==
    [m \in ExternalModules |->
        IF m = "der_injection" THEN "DistributedInjection"
        ELSE "DistributedWithdrawal"]
LateTerm == "LateTerm"

\* Fixed-point denominators.
Scale == 1000
CrfScale == 100000
MultScale == 10

\* float("inf")
inf == 2000000000

----------------------------------------------------------------------------
\* Generic helpers.

RECURSIVE SumSet(_, _)
\* sum(f(x) for x in S), Python's sum() over a generator, starting at 0.
SumSet(S, f) ==
    IF S = {} THEN 0
    ELSE LET x == CHOOSE y \in S : TRUE
         IN  f[x] + SumSet(S \ {x}, f)

Range(s) == {s[i] : i \in DOMAIN s}

Count(s, x) == Cardinality({i \in DOMAIN s : s[i] = x})

Permutation(s, t) ==
    /\ Len(s) = Len(t)
    /\ \A x \in Range(s) \cup Range(t) : Count(s, x) = Count(t, x)

----------------------------------------------------------------------------
\* transmission/transport/build.py : rules of the components.

Lines == Range(TRANSMISSION_LINES)

\* The filter without the test of trans_new_build_allowed.
TRANS_BLD_YRS_all ==
    {y \in Lines \X PERIODS : trans_capital_cost_per_mw_km # inf}

TRANS_BLD_YRS ==
    {y \in Lines \X PERIODS :
        trans_new_build_allowed[y[1]] /\ trans_capital_cost_per_mw_km # inf}

\* A slip of the comparison: only the build years strictly before the period.
NewTxCapacity_strict(tx, period) ==
    LET yrs == {bld_yr \in PERIODS :
                   bld_yr < period /\ <<tx, bld_yr>> \in TRANS_BLD_YRS}
    IN  SumSet(yrs, [bld_yr \in yrs |-> BuildTx[<<tx, bld_yr>>]])

\* A slip of the comparison: only the build of the period itself.
NewTxCapacity_same(tx, period) ==
    LET yrs == {bld_yr \in PERIODS :
                   bld_yr = period /\ <<tx, bld_yr>> \in TRANS_BLD_YRS}
    IN  SumSet(yrs, [bld_yr \in yrs |-> BuildTx[<<tx, bld_yr>>]])

NewTxCapacity(tx, period) ==
    LET yrs == {bld_yr \in PERIODS :
                   bld_yr <= period /\ <<tx, bld_yr>> \in TRANS_BLD_YRS}
    IN  SumSet(yrs, [bld_yr \in yrs |-> BuildTx[<<tx, bld_yr>>]])

TxCapacityNameplate(tx, p) == NewTxCapacity(tx, p) + existing_trans_cap[tx]

\* Only the new capacity derated, the existing capacity dropped.
TxCapacityNameplateAvailable_new(tx, period) ==
    NewTxCapacity(tx, period) * trans_derating_factor[tx]

\* in 1/MultScale MW
TxCapacityNameplateAvailable(tx, period) ==
    TxCapacityNameplate(tx, period) * trans_derating_factor[tx]

\* 0.03, in 1/CrfScale
trans_fixed_om_fraction == 3000

RECURSIVE Growth(_, _)
\* (1 + ir)^t in 1/CrfScale, ir in percent
Growth(ir, t) ==
    IF t = 0 THEN CrfScale ELSE (Growth(ir, t - 1) * (100 + ir)) \div 100

\* switch_model.financials.capital_recovery_factor, in 1/CrfScale:
\* ir / (1 - (1+ir)^-t) = ir + ir / ((1+ir)^t - 1), and 1/t for ir = 0.
crf(ir, t) ==
    IF ir = 0 THEN CrfScale \div t
    ELSE ir * 1000 + (ir * 1000 * CrfScale) \div (Growth(ir, t) - CrfScale)

\* The terrain multiplier of the line left out (taken as 1).
trans_cost_annual_flat(tx) ==
    IF trans_capital_cost_per_mw_km = inf THEN inf
    ELSE trans_capital_cost_per_mw_km * MultScale *
         trans_length_km[tx] *
         (crf(interest_rate, trans_lifetime_yrs) + trans_fixed_om_fraction)

\* The rate of interest used in place of the capital recovery factor.
trans_cost_annual_rate(tx) ==
    IF trans_capital_cost_per_mw_km = inf THEN inf
    ELSE trans_capital_cost_per_mw_km * trans_terrain_multiplier[tx] *
         trans_length_km[tx] *
         (interest_rate * 1000 + trans_fixed_om_fraction)

\* thousand $ per MW-year, in 1/(CrfScale * MultScale)
trans_cost_annual(tx) ==
    IF trans_capital_cost_per_mw_km = inf THEN inf
    ELSE trans_capital_cost_per_mw_km * trans_terrain_multiplier[tx] *
         trans_length_km[tx] *
         (crf(interest_rate, trans_lifetime_yrs) + trans_fixed_om_fraction)

\* The cost charged on the whole nameplate capacity, existing and new.
TxLineCosts_nameplate(tx, p) ==
    IF <<tx, p>> \in TRANS_BLD_YRS
    THEN TxCapacityNameplate(tx, p) * trans_cost_annual(tx)
    ELSE 0

\* A cost charged on the build of the period only.
TxLineCosts_incremental(tx, p) ==
    IF <<tx, p>> \in TRANS_BLD_YRS
    THEN BuildTx[<<tx, p>>] * trans_cost_annual(tx)
    ELSE 0

TxLineCosts(tx, p) ==
    IF <<tx, p>> \in TRANS_BLD_YRS
    THEN NewTxCapacity(tx, p) * trans_cost_annual(tx)
    ELSE 0

\* The cost of the last line only: the total overwritten, not added to.
TxFixedCosts_last(p) ==
    IF TRANSMISSION_LINES = <<>> THEN 0
    ELSE TxLineCosts(TRANSMISSION_LINES[Len(TRANSMISSION_LINES)], p)

TxFixedCosts(p) == SumSet(Lines, [tx \in Lines |-> TxLineCosts(tx, p)])

\* Only the direction in which each line was entered.
init_DIRECTIONAL_TX_oneway ==
    {<<trans_lz1[tx], trans_lz2[tx]>> : tx \in Lines}

init_DIRECTIONAL_TX ==
    {<<trans_lz1[tx], trans_lz2[tx]>> : tx \in Lines} \cup
    {<<trans_lz2[tx], trans_lz1[tx]>> : tx \in Lines}

DIRECTIONAL_TX == init_DIRECTIONAL_TX

TX_CONNECTIONS_TO_ZONE(lz) ==
    {z \in LOAD_ZONES : <<z, lz>> \in DIRECTIONAL_TX}

\* Only the direction in which the line was entered is matched.
init_trans_d_line_forward(zone_from, zone_to) ==
    LET hits == {i \in DOMAIN TRANSMISSION_LINES :
                    LET tx == TRANSMISSION_LINES[i]
                    IN  trans_lz1[tx] = zone_from /\ trans_lz2[tx] = zone_to}
    IN  IF hits = {} THEN "None"
        ELSE TRANSMISSION_LINES[CHOOSE i \in hits : \A j \in hits : i <= j]

\* The first line, in the order of TRANSMISSION_LINES, whose end points are
\* the two zones; None when the loop ends without a return.
init_trans_d_line(zone_from, zone_to) ==
    LET hits == {i \in DOMAIN TRANSMISSION_LINES :
                    LET tx == TRANSMISSION_LINES[i]
                    IN  \/ trans_lz1[tx] = zone_from /\ trans_lz2[tx] = zone_to
                        \/ trans_lz2[tx] = zone_from /\ trans_lz1[tx] = zone_to}
    IN  IF hits = {} THEN "None"
        ELSE TRANSMISSION_LINES[CHOOSE i \in hits : \A j \in hits : i <= j]

trans_d_line == [d \in DIRECTIONAL_TX |-> init_trans_d_line(d[1], d[2])]

----------------------------------------------------------------------------
\* transmission/local_td.py : rules of the components.

\* timescales: the periods that start at or before the period
CURRENT_AND_PRIOR_PERIODS_FOR_PERIOD(period) == {p \in PERIODS : p <= period}

\* load_zones: every zone at every timepoint
ZONE_TIMEPOINTS == LOAD_ZONES \X TIMEPOINTS

\* load_zones: the (zone, period) pairs that have a peak demand
EXTERNAL_COINCIDENT_PEAK_DEMAND_ZONE_PERIODS ==
    DOMAIN zone_expected_coincident_peak_demand

\* The builds of the period itself left out of the sum.
LocalTDCapacity_prior(z, period) ==
    LET yrs == CURRENT_AND_PRIOR_PERIODS_FOR_PERIOD(period) \ {period}
    IN  existing_local_td[z]
        + SumSet(yrs, [bld_yr \in yrs |-> BuildLocalTD[<<z, bld_yr>>]])

LocalTDCapacity(z, period) ==
    LET yrs == CURRENT_AND_PRIOR_PERIODS_FOR_PERIOD(period)
    IN  existing_local_td[z]
        + SumSet(yrs, [bld_yr \in yrs |-> BuildLocalTD[<<z, bld_yr>>]])

\* The cost charged on the new capacity only.
LocalTDFixedCosts_new(p) ==
    SumSet(LOAD_ZONES,
           [z \in LOAD_ZONES |->
               (LocalTDCapacity(z, p) - existing_local_td[z])
                   * local_td_annual_cost_per_mw[z]])

LocalTDFixedCosts(p) ==
    SumSet(LOAD_ZONES,
           [z \in LOAD_ZONES |->
               LocalTDCapacity(z, p) * local_td_annual_cost_per_mw[z]])

\* The loss left out, as in LocalTDCapacity >= max_local_demand.
Meet_Local_TD_gross(z, period) ==
    LocalTDCapacity(z, period) * Scale
        >= zone_expected_coincident_peak_demand[<<z, period>>] * Scale

Meet_Local_TD(z, period) ==
    LocalTDCapacity(z, period) * (Scale - distribution_loss_rate)
        >= zone_expected_coincident_peak_demand[<<z, period>>] * Scale

\* The limit left out.
Enforce_Local_TD_Capacity_Limit_none(z, t) == TRUE

Enforce_Local_TD_Capacity_Limit(z, t) ==
    WithdrawFromCentralGrid[<<z, t>>] <= LocalTDCapacity(z, tp_period[t])

\* The loss added instead of taken off (load * (1 + distribution_loss_rate)).
InjectIntoDistributedGrid_gross(z, t) ==
    WithdrawFromCentralGrid[<<z, t>>] * (Scale + distribution_loss_rate)

\* in 1/Scale MW
InjectIntoDistributedGrid(z, t) ==
    WithdrawFromCentralGrid[<<z, t>>] * (Scale - distribution_loss_rate)

\* getattr(m, component)[z, t], in 1/Scale MW
Component(component, z, t) ==
    CASE component = "WithdrawFromCentralGrid" ->
            WithdrawFromCentralGrid[<<z, t>>] * Scale
      [] component = "InjectIntoDistributedGrid" ->
            InjectIntoDistributedGrid(z, t)
      [] OTHER -> der_mw[component][<<z, t>>] * Scale

\* Only the last term kept: the running total overwritten, not added to.
SumTerms_last(components) ==
    IF components = <<>> THEN EmptyBag
    ELSE SetToBag({components[Len(components)]})

RECURSIVE SumTerms(_)
\* sum(getattr(m, component)[z, t] for component in components): the linear
\* expression that sum() builds, a bag of terms, one term added per element.
SumTerms(components) ==
    IF components = <<>> THEN EmptyBag
    ELSE LET n == Len(components)
         IN  SumTerms(SubSeq(components, 1, n - 1))
                 (+) SetToBag({components[n]})

\* The value of a linear expression at (z, t), in 1/Scale MW
Value(expr, z, t) ==
    LET terms == BagToSet(expr)
    IN  SumSet(terms, [c \in terms |-> CopiesIn(c, expr) * Component(c, z, t)])

\* The first registered injection left out of the sum (an off-by-one).
BalanceRule_skip(injections, withdrawals) ==
    [zt \in ZONE_TIMEPOINTS |->
        [lhs |-> SumTerms(IF injections = <<>> THEN <<>> ELSE Tail(injections)),
         rhs |-> SumTerms(withdrawals)]]

\* The rule of the constraint, for given lists.
BalanceRule(injections, withdrawals) ==
    [zt \in ZONE_TIMEPOINTS |->
        [lhs |-> SumTerms(injections), rhs |-> SumTerms(withdrawals)]]

\* The withdrawal from the central node counted among the withdrawals of the
\* distributed node.
Distributed_Energy_Balance_central ==
    BalanceRule(Distributed_Power_Injections,
                Append(Distributed_Power_Withdrawals, "WithdrawFromCentralGrid"))

\* The constraint that the rule gives with the lists as they are.
Distributed_Energy_Balance ==
    BalanceRule(Distributed_Power_Injections, Distributed_Power_Withdrawals)

----------------------------------------------------------------------------
\* Domains of the decision variables.

\* The domain left unrestricted.
NonNegativeReals_any(values) == values

NonNegativeReals(values) == {v \in values : v >= 0}

\* The domain left unrestricted.
PercentFraction_any(values) == values

\* [0, 1], for values in 1/MultScale
PercentFraction(values) == {v \in values : 0 <= v /\ v <= MultScale}

----------------------------------------------------------------------------
\* balancing/unserved_load.py : rules of the components.

\* No penalty when lost_load_cost.csv gives none.
unserved_load_penalty_free ==
    IF lost_load_cost = <<>> THEN 0 ELSE lost_load_cost[1]

\* the value of lost_load_cost.csv, or the default
unserved_load_penalty ==
    IF lost_load_cost = <<>> THEN 500 ELSE lost_load_cost[1]

UnservedLoadPenalty(tp) ==
    SumSet(LOAD_ZONES,
           [z \in LOAD_ZONES |-> UnservedLoad[<<z, tp>>] * unserved_load_penalty])

----------------------------------------------------------------------------
\* The values of the parameters against their declared domains (within=),
\* as Pyomo checks them when the instance is constructed.

ParamsWithinDomains ==
    /\ BUILD \in module_list =>
          /\ \A tx \in Lines :
                /\ trans_lz1[tx] \in LOAD_ZONES
                /\ trans_lz2[tx] \in LOAD_ZONES
                /\ {trans_length_km[tx], existing_trans_cap[tx]}
                       \subseteq NonNegativeReals({trans_length_km[tx],
                                                  existing_trans_cap[tx]})
                /\ trans_new_build_allowed[tx] \in BOOLEAN
                /\ trans_derating_factor[tx]
                       \in PercentFraction({trans_derating_factor[tx]})
                /\ trans_terrain_multiplier[tx]
                       \in NonNegativeReals({trans_terrain_multiplier[tx]})
                /\ trans_cost_annual(tx)
                       \in NonNegativeReals({trans_cost_annual(tx)})
          /\ {trans_capital_cost_per_mw_km, trans_lifetime_yrs}
                 \subseteq NonNegativeReals({trans_capital_cost_per_mw_km,
                                            trans_lifetime_yrs})
          /\ \A d \in DIRECTIONAL_TX : trans_d_line[d] \in Lines
    /\ LOCAL_TD \in module_list =>
          \A z \in LOAD_ZONES :
              {existing_local_td[z], local_td_annual_cost_per_mw[z]}
                 \subseteq NonNegativeReals({existing_local_td[z],
                                            local_td_annual_cost_per_mw[z]})
    /\ UNSERVED_LOAD \in module_list =>
          unserved_load_penalty \in NonNegativeReals({unserved_load_penalty})

----------------------------------------------------------------------------
\* The callbacks.

Called(m, callback) == <<m, callback>> \in called

AllComponentsDefined ==
    \A m \in module_list : Called(m, "define_components")

\* local_td.define_dynamic_lists
define_dynamic_lists ==
    /\ stage = "abstract"
    /\ LOCAL_TD \in module_list
    /\ called = {}
    /\ Distributed_Power_Injections' = <<>>
    /\ Distributed_Power_Withdrawals' = <<>>
    /\ called' = called \cup {<<LOCAL_TD, "define_dynamic_lists">>}
    /\ UNCHANGED <<inputs, reports, exporter, stage, Zone_Power_Injections, Zone_Power_Withdrawals,
                   Cost_Components_Per_Period, Cost_Components_Per_TP,
                   solution>>

\* build.define_components
define_components_build ==
    /\ stage = "abstract"
    /\ BUILD \in module_list
    /\ LOCAL_TD \in module_list => Called(LOCAL_TD, "define_dynamic_lists")
    /\ ~Called(BUILD, "define_components")
    /\ Cost_Components_Per_Period' =
           Append(Cost_Components_Per_Period, "TxFixedCosts")
    /\ called' = called \cup {<<BUILD, "define_components">>}
    /\ UNCHANGED <<inputs, reports, exporter, stage, Zone_Power_Injections, Zone_Power_Withdrawals,
                   Distributed_Power_Injections, Distributed_Power_Withdrawals,
                   Cost_Components_Per_TP, solution>>

\* The two terms registered on the wrong side of their balances.
define_components_local_td_swapped ==
    /\ stage = "abstract"
    /\ LOCAL_TD \in module_list
    /\ Called(LOCAL_TD, "define_dynamic_lists")
    /\ ~Called(LOCAL_TD, "define_components")
    /\ Cost_Components_Per_Period' =
           Append(Cost_Components_Per_Period, "LocalTDFixedCosts")
    /\ Zone_Power_Injections' =
           Append(Zone_Power_Injections, "WithdrawFromCentralGrid")
    /\ Distributed_Power_Withdrawals' =
           Append(Distributed_Power_Withdrawals, "InjectIntoDistributedGrid")
    /\ called' = called \cup {<<LOCAL_TD, "define_components">>}
    /\ UNCHANGED <<inputs, reports, exporter, stage, Zone_Power_Withdrawals,
                   Distributed_Power_Injections, Cost_Components_Per_TP,
                   solution>>

\* local_td.define_components
define_components_local_td ==
    /\ stage = "abstract"
    /\ LOCAL_TD \in module_list
    /\ Called(LOCAL_TD, "define_dynamic_lists")
    /\ ~Called(LOCAL_TD, "define_components")
    /\ Cost_Components_Per_Period' =
           Append(Cost_Components_Per_Period, "LocalTDFixedCosts")
    /\ Zone_Power_Withdrawals' =
           Append(Zone_Power_Withdrawals, "WithdrawFromCentralGrid")
    /\ Distributed_Power_Injections' =
           Append(Distributed_Power_Injections, "InjectIntoDistributedGrid")
    /\ called' = called \cup {<<LOCAL_TD, "define_components">>}
    /\ UNCHANGED <<inputs, reports, exporter, stage, Zone_Power_Injections,
                   Distributed_Power_Withdrawals, Cost_Components_Per_TP,
                   solution>>

\* unserved_load.define_components
define_components_unserved_load ==
    /\ stage = "abstract"
    /\ UNSERVED_LOAD \in module_list
    /\ LOCAL_TD \in module_list => Called(LOCAL_TD, "define_dynamic_lists")
    /\ ~Called(UNSERVED_LOAD, "define_components")
    /\ Zone_Power_Injections' = Append(Zone_Power_Injections, "UnservedLoad")
    /\ Cost_Components_Per_TP' =
           Append(Cost_Components_Per_TP, "UnservedLoadPenalty")
    /\ called' = called \cup {<<UNSERVED_LOAD, "define_components">>}
    /\ UNCHANGED <<inputs, reports, exporter, stage, Zone_Power_Withdrawals,
                   Distributed_Power_Injections, Distributed_Power_Withdrawals,
                   Cost_Components_Per_Period, solution>>

\* define_components of a module outside this repository: it registers its
\* term with the list of the distributed node.
define_components_external ==
    \E m \in module_list \cap ExternalModules :
        /\ stage = "abstract"
        /\ Called(LOCAL_TD, "define_dynamic_lists")
        /\ ~Called(m, "define_components")
        /\ IF m = "der_injection"
           THEN /\ Distributed_Power_Injections' =
                       Append(Distributed_Power_Injections, ExternalTerm[m])
                /\ UNCHANGED Distributed_Power_Withdrawals
           ELSE /\ Distributed_Power_Withdrawals' =
                       Append(Distributed_Power_Withdrawals, ExternalTerm[m])
                /\ UNCHANGED Distributed_Power_Injections
        /\ called' = called \cup {<<m, "define_components">>}
        /\ UNCHANGED <<inputs, reports, exporter, stage, Zone_Power_Injections,
                       Zone_Power_Withdrawals, Cost_Components_Per_Period,
                       Cost_Components_Per_TP, solution>>

\* The balance defined before every module has defined its components.
define_dynamic_components_early ==
    /\ stage = "abstract"
    /\ LOCAL_TD \in module_list
    /\ Called(LOCAL_TD, "define_components")
    /\ ~Called(LOCAL_TD, "define_dynamic_components")
    /\ called' = called \cup {<<LOCAL_TD, "define_dynamic_components">>}
    /\ UNCHANGED <<inputs, reports, exporter, stage, lists, solution>>

\* local_td.define_dynamic_components
define_dynamic_components ==
    /\ stage = "abstract"
    /\ LOCAL_TD \in module_list
    /\ AllComponentsDefined
    /\ ~Called(LOCAL_TD, "define_dynamic_components")
    /\ called' = called \cup {<<LOCAL_TD, "define_dynamic_components">>}
    /\ UNCHANGED <<inputs, reports, exporter, stage, lists, solution>>

\* A module that appends to a list of the distributed node after
\* local_td.define_dynamic_components has run (in its own
\* define_dynamic_components): list.append() on a plain list.
late_register ==
    /\ stage = "abstract"
    /\ Called(LOCAL_TD, "define_dynamic_components")
    /\ ~Called(LateTerm, "define_dynamic_components")
    /\ \/ /\ Distributed_Power_Injections' =
                 Append(Distributed_Power_Injections, LateTerm)
          /\ UNCHANGED Distributed_Power_Withdrawals
       \/ /\ Distributed_Power_Withdrawals' =
                 Append(Distributed_Power_Withdrawals, LateTerm)
          /\ UNCHANGED Distributed_Power_Injections
    /\ called' = called \cup {<<LateTerm, "define_dynamic_components">>}
    /\ UNCHANGED <<inputs, reports, exporter, stage, Zone_Power_Injections,
                   Zone_Power_Withdrawals, Cost_Components_Per_Period,
                   Cost_Components_Per_TP, solution>>

\* The abstract model is instantiated with the input tables; a parameter
\* value outside its domain raises an error and no instance is made.
create_instance ==
    /\ stage = "abstract"
    /\ AllComponentsDefined
    /\ LOCAL_TD \in module_list => Called(LOCAL_TD, "define_dynamic_components")
    /\ stage' = IF ParamsWithinDomains THEN "instance" ELSE "error"
    /\ UNCHANGED <<inputs, reports, exporter, called, lists, solution>>

\* Every constraint of the instance holds for the values of the variables.
Feasible ==
    LOCAL_TD \in module_list =>
        /\ \A y \in EXTERNAL_COINCIDENT_PEAK_DEMAND_ZONE_PERIODS :
               Meet_Local_TD(y[1], y[2])
        /\ \A zt \in ZONE_TIMEPOINTS :
               /\ Enforce_Local_TD_Capacity_Limit(zt[1], zt[2])
               /\ Value(Distributed_Energy_Balance[zt].lhs, zt[1], zt[2])
                    = Value(Distributed_Energy_Balance[zt].rhs, zt[1], zt[2])

\* Rows only for the (tx, p) that have a build variable.
tx_build_df_built ==
    [y \in DOMAIN BuildTx |->
        [trans_lz1 |-> trans_lz1[y[1]],
         trans_lz2 |-> trans_lz2[y[1]],
         trans_length_km |-> trans_length_km[y[1]],
         trans_derating_factor |-> trans_derating_factor[y[1]],
         existing_trans_cap |-> existing_trans_cap[y[1]],
         BuildTx |-> BuildTx[y],
         TxCapacityNameplate |-> TxCapacityNameplate(y[1], y[2]),
         TxCapacityNameplateAvailable |->
             TxCapacityNameplateAvailable(y[1], y[2]),
         TotalAnnualCost |-> TxLineCosts(y[1], y[2])]]

\* The rows of the table of post_solve, one for each (tx, p) of
\* TRANSMISSION_LINES * PERIODS, indexed by (TRANSMISSION_LINE, PERIOD).
tx_build_df ==
    [y \in Lines \X PERIODS |->
        [trans_lz1 |-> trans_lz1[y[1]],
         trans_lz2 |-> trans_lz2[y[1]],
         trans_length_km |-> trans_length_km[y[1]],
         trans_derating_factor |-> trans_derating_factor[y[1]],
         existing_trans_cap |-> existing_trans_cap[y[1]],
         BuildTx |-> IF y \in DOMAIN BuildTx THEN BuildTx[y] ELSE ".",
         TxCapacityNameplate |-> TxCapacityNameplate(y[1], y[2]),
         TxCapacityNameplateAvailable |->
             TxCapacityNameplateAvailable(y[1], y[2]),
         TotalAnnualCost |-> TxLineCosts(y[1], y[2])]]

\* build.post_solve
post_solve ==
    /\ stage = "solved"
    /\ BUILD \in module_list
    /\ ~Called(BUILD, "post_solve")
    /\ transmission_csv' = tx_build_df
    /\ called' = called \cup {<<BUILD, "post_solve">>}
    /\ UNCHANGED <<inputs, exporter, stage, lists, solution>>

\* The solver returns a feasible point.
solve ==
    /\ stage = "instance"
    /\ stage' = "solved"
    /\ UNCHANGED <<inputs, reports, exporter, called, lists>>
    /\ BuildTx' \in
         [IF BUILD \in module_list THEN TRANS_BLD_YRS ELSE {}
             -> NonNegativeReals(BuildValues)]
    /\ BuildLocalTD' \in
         [IF LOCAL_TD \in module_list THEN LOAD_ZONES \X PERIODS ELSE {}
             -> NonNegativeReals(BuildValues)]
    /\ WithdrawFromCentralGrid' \in
         [IF LOCAL_TD \in module_list THEN ZONE_TIMEPOINTS ELSE {}
             -> NonNegativeReals(FlowValues)]
    /\ UnservedLoad' \in
         [IF UNSERVED_LOAD \in module_list THEN LOAD_ZONES \X TIMEPOINTS ELSE {}
             -> NonNegativeReals(FlowValues)]
    /\ Feasible'

----------------------------------------------------------------------------
\* get_inputs: the export of the database to the input files.

RPS_UNBUNDLED == "switch_model.policies.rps_unbundled"
CA_POLICIES == "switch_model.policies.CA_policies"
PLANNING_RESERVES == "switch_model.balancing.planning_reserves"

\* The list 'modules' as it is when get_inputs is imported.
modules_imported ==
    <<"switch_model",
      "switch_model.timescales",
      "switch_model.financials",
      "switch_model.balancing.load_zones",
      "switch_model.energy_sources.properties",
      "switch_model.generators.core.build",
      "switch_model.generators.core.dispatch",
      "switch_model.reporting",
      "switch_model.generators.core.no_commit",
      "switch_model.generators.extensions.hydro_simple",
      "switch_model.generators.extensions.storage",
      "switch_model.energy_sources.fuel_costs.markets",
      "switch_model.transmission.transport.build",
      "switch_model.transmission.transport.dispatch",
      "switch_model.policies.carbon_policies",
      "switch_model.policies.min_per_tech",
      "switch_model.policies.wind_to_solar_ratio">>

\* None is the empty sequence and a value v the sequence <<v>>.
None == <<>>

\* The parameters of a scenario that decide the module list.
Scenarios ==
    [rps_scenario_id : {None, <<1>>},
     ca_policies_scenario_id : {None, <<1>>, <<2>>},
     enable_planning_reserves : BOOLEAN]

\* Table load_zone: load_zone_id -> name, the names unique.
ZoneIds == 1..3
load_zone == [id \in ZoneIds |-> CASE id = 1 -> "B" [] id = 2 -> "A" [] id = 3 -> "C"]

\* The order of the names in ORDER BY.
NameRank == [z \in Zones |-> CASE z = "A" -> 1 [] z = "B" -> 2 [] z = "C" -> 3]

\* Every row of the table, the WHERE clause left out.
transmission_lines_query_all(db) ==
    {[TRANSMISSION_LINE |-> <<db[i][1], db[i][2]>>,
      trans_lz1 |-> load_zone[db[i][1]],
      trans_lz2 |-> load_zone[db[i][2]],
      trans_dbid |-> i] : i \in DOMAIN db}

\* The rows that the query of transmission_lines.csv selects from the table
\* db (transmission_line_id -> <<start_load_zone_id, end_load_zone_id>>).
\* TRANSMISSION_LINE is start || '-' || end, kept as the pair.
transmission_lines_query(db) ==
    {[TRANSMISSION_LINE |-> <<db[i][1], db[i][2]>>,
      trans_lz1 |-> load_zone[db[i][1]],
      trans_lz2 |-> load_zone[db[i][2]],
      trans_dbid |-> i] : i \in {j \in DOMAIN db : db[j][1] < db[j][2]}}

\* ORDER BY 2,3: the orders of the rows that the database may return.
OrderBy23(rows) ==
    {s \in [1..Cardinality(rows) -> rows] :
        /\ Range(s) = rows
        /\ \A i, j \in DOMAIN s :
              i < j => NameRank[s[i].trans_lz1] * 10 + NameRank[s[i].trans_lz2]
                        <= NameRank[s[j].trans_lz1] * 10 + NameRank[s[j].trans_lz2]}

\* ca_policies raises for a scenario id that it does not know.
ca_policies_raises(scenario_params) ==
    scenario_params.ca_policies_scenario_id \notin {None, <<0>>, <<1>>}

\* The list 'modules' after ca_policies has returned.
ca_policies(mods, scenario_params) ==
    IF scenario_params.ca_policies_scenario_id = None THEN mods
    ELSE Append(mods, CA_POLICIES)

\* The list 'modules' after planning_reserves has returned.
planning_reserves(mods) == Append(mods, PLANNING_RESERVES)

\* One call of query_db: the scenario is loaded from the configuration of
\* the call, transmission_lines.csv is written, 'modules' is appended to and
\* modules.txt is written from it.  An exception of ca_policies ends the call
\* and the process before modules.txt is written.
query_db ==
    /\ stage = "export"
    /\ config # <<>>
    /\ LET scenario == Head(config)
           rps == IF scenario.rps_scenario_id # None
                  THEN Append(modules, RPS_UNBUNDLED)
                  ELSE modules
           ca == ca_policies(rps, scenario)
           reserves == IF scenario.enable_planning_reserves
                       THEN planning_reserves(ca)
                       ELSE ca
       IN  /\ params' = <<scenario>>
           /\ config' = Tail(config)
           /\ transmission_lines_csv' \in
                  OrderBy23(transmission_lines_query(db_transmission_lines))
           /\ IF ca_policies_raises(scenario)
              THEN /\ modules' = rps
                   /\ stage' = "raised"
                   /\ UNCHANGED modules_txt
              ELSE /\ modules' = reserves
                   /\ modules_txt' = reserves
                   /\ UNCHANGED stage
    /\ UNCHANGED <<inputs, reports, called, lists, solution,
                   db_transmission_lines>>

----------------------------------------------------------------------------
\* The input tables.  Each family varies the tables that one part of the
\* formulation reads and holds the others at one value.

\* Any rows of transmission_lines.csv; no new build.
TopologyInputs ==
    /\ module_list = {BUILD}
    /\ LOAD_ZONES = Zones
    /\ PERIODS = 1..NumPeriods
    /\ TIMEPOINTS = {1}
    /\ tp_period = [t \in {1} |-> 1]
    /\ \E n \in 0..MaxLines : TRANSMISSION_LINES = SubSeq(LineIds, 1, n)
    /\ trans_lz1 \in [Lines -> Zones]
    /\ trans_lz2 \in [Lines -> Zones]
    /\ existing_trans_cap = [tx \in Lines |-> 50]
    /\ trans_new_build_allowed = [tx \in Lines |-> FALSE]
    /\ trans_capital_cost_per_mw_km = 1
    /\ trans_length_km = [tx \in Lines |-> 100]
    /\ interest_rate = 5
    /\ trans_derating_factor = [tx \in Lines |-> MultScale]
    /\ trans_terrain_multiplier = [tx \in Lines |-> MultScale]
    /\ trans_lifetime_yrs = 20
    /\ lost_load_cost = <<>>
    /\ existing_local_td = [z \in Zones |-> 0]
    /\ local_td_annual_cost_per_mw = [z \in Zones |-> 0]
    /\ distribution_loss_rate = 53
    /\ zone_expected_coincident_peak_demand = <<>>
    /\ der_mw = <<>>

\* Two lines A-B and B-C over 1..NumPeriods; capacities, build flags and
\* costs vary.
LedgerInputs ==
    /\ module_list = {BUILD}
    /\ LOAD_ZONES = Zones
    /\ PERIODS = 1..NumPeriods
    /\ TIMEPOINTS = 1..NumPeriods
    /\ tp_period = [t \in 1..NumPeriods |-> t]
    /\ TRANSMISSION_LINES = <<"T1", "T2">>
    /\ trans_lz1 = [tx \in {"T1", "T2"} |-> IF tx = "T1" THEN "A" ELSE "B"]
    /\ trans_lz2 = [tx \in {"T1", "T2"} |-> IF tx = "T1" THEN "B" ELSE "C"]
    /\ \E cap \in {0, 50} :
           existing_trans_cap =
               [tx \in {"T1", "T2"} |-> IF tx = "T1" THEN cap ELSE 50 - cap]
    /\ trans_new_build_allowed \in [{"T1", "T2"} -> BOOLEAN]
    /\ trans_capital_cost_per_mw_km \in {1, inf}
    /\ trans_length_km = [tx \in {"T1", "T2"} |-> IF tx = "T1" THEN 100 ELSE 1]
    /\ interest_rate = 5
    /\ trans_derating_factor = [tx \in {"T1", "T2"} |-> MultScale]
    /\ trans_terrain_multiplier = [tx \in {"T1", "T2"} |-> MultScale]
    /\ trans_lifetime_yrs = 20
    /\ lost_load_cost = <<>>
    /\ existing_local_td = [z \in Zones |-> 0]
    /\ local_td_annual_cost_per_mw = [z \in Zones |-> 0]
    /\ distribution_loss_rate = 53
    /\ zone_expected_coincident_peak_demand = <<>>
    /\ der_mw = <<>>

\* One zone with its distributed node; the modules that register terms, the
\* loss rate, the demands and the local capacity vary.
DistributedInputs ==
    /\ \E ext \in SUBSET ExternalModules : module_list = {LOCAL_TD} \cup ext
    /\ LOAD_ZONES = {"A"}
    /\ PERIODS = {1, 2}
    /\ TIMEPOINTS = {1, 2}
    /\ tp_period = [t \in {1, 2} |-> t]
    /\ TRANSMISSION_LINES = <<>>
    /\ trans_lz1 = <<>>
    /\ trans_lz2 = <<>>
    /\ existing_trans_cap = <<>>
    /\ trans_new_build_allowed = <<>>
    /\ trans_capital_cost_per_mw_km = 1
    /\ trans_length_km = <<>>
    /\ interest_rate = 5
    /\ trans_derating_factor = <<>>
    /\ trans_terrain_multiplier = <<>>
    /\ trans_lifetime_yrs = 20
    /\ lost_load_cost = <<>>
    /\ existing_local_td \in [{"A"} -> {0, 10}]
    /\ local_td_annual_cost_per_mw = [z \in {"A"} |-> 3]
    /\ distribution_loss_rate \in {0, 53, 500, Scale}
    /\ \E peak \in {0, 5}, yrs \in {{}, {<<"A", 1>>}} :
           zone_expected_coincident_peak_demand = [y \in yrs |-> peak]
    /\ \E inj \in {0, 5}, wd \in {0, 5, 15} :
           der_mw = [c \in {"DistributedInjection", "DistributedWithdrawal",
                            LateTerm} |->
                       [zt \in {"A"} \X {1, 2} |->
                           CASE zt[2] # 1 -> 0
                             [] c = "DistributedInjection" -> inj
                             [] c = "DistributedWithdrawal" -> wd
                             [] OTHER -> 0]]
    \* A loss rate of 1 is tried with local_td alone and no peak demand.
    /\ distribution_loss_rate = Scale =>
           /\ module_list = {LOCAL_TD}
           /\ zone_expected_coincident_peak_demand = <<>>
           /\ der_mw["DistributedInjection"][<<"A", 1>>] = 0
           /\ der_mw["DistributedWithdrawal"][<<"A", 1>>] = 0

\* One line A-B and the local T&D of its two zones, all buildable.
CombinedInputs ==
    /\ module_list = {BUILD, LOCAL_TD}
    /\ LOAD_ZONES = {"A", "B"}
    /\ PERIODS = {1, 2}
    /\ TIMEPOINTS = {1}
    /\ tp_period = [t \in {1} |-> 1]
    /\ TRANSMISSION_LINES = <<"T1">>
    /\ trans_lz1 = [tx \in {"T1"} |-> "A"]
    /\ trans_lz2 = [tx \in {"T1"} |-> "B"]
    /\ \E cap \in {10, 50} : existing_trans_cap = [tx \in {"T1"} |-> cap]
    /\ trans_new_build_allowed = [tx \in {"T1"} |-> TRUE]
    /\ trans_capital_cost_per_mw_km = 1
    /\ trans_length_km = [tx \in {"T1"} |-> 1]
    /\ interest_rate = 5
    /\ trans_derating_factor = [tx \in {"T1"} |-> MultScale]
    /\ trans_terrain_multiplier = [tx \in {"T1"} |-> MultScale]
    /\ trans_lifetime_yrs = 20
    /\ lost_load_cost = <<>>
    /\ existing_local_td = [z \in {"A", "B"} |-> 10]
    /\ local_td_annual_cost_per_mw =
           [z \in {"A", "B"} |-> IF z = "A" THEN 2 ELSE 3]
    /\ distribution_loss_rate = 53
    /\ zone_expected_coincident_peak_demand = <<>>
    /\ der_mw = [c \in {LateTerm} |-> [zt \in {"A", "B"} \X {1} |-> 0]]

\* One line A-B that cannot be built; the financial parameters vary.
FinanceInputs ==
    /\ module_list = {BUILD}
    /\ LOAD_ZONES = {"A", "B"}
    /\ PERIODS = {1}
    /\ TIMEPOINTS = {1}
    /\ tp_period = [t \in {1} |-> 1]
    /\ TRANSMISSION_LINES = <<"T1">>
    /\ trans_lz1 = [tx \in {"T1"} |-> "A"]
    /\ trans_lz2 = [tx \in {"T1"} |-> "B"]
    /\ existing_trans_cap = [tx \in {"T1"} |-> 50]
    /\ trans_new_build_allowed = [tx \in {"T1"} |-> FALSE]
    /\ trans_capital_cost_per_mw_km = 1
    /\ trans_length_km = [tx \in {"T1"} |-> 100]
    /\ interest_rate \in 0..MaxRate
    /\ trans_derating_factor = [tx \in {"T1"} |-> MultScale]
    /\ trans_terrain_multiplier \in [{"T1"} -> {MultScale, 15}]
    /\ trans_lifetime_yrs \in 1..MaxLifetime
    /\ lost_load_cost = <<>>
    /\ existing_local_td = [z \in Zones |-> 0]
    /\ local_td_annual_cost_per_mw = [z \in Zones |-> 0]
    /\ distribution_loss_rate = 53
    /\ zone_expected_coincident_peak_demand = <<>>
    /\ der_mw = <<>>

\* One line A-B; the derating factor and the terrain multiplier take values
\* inside and outside the ranges their documentation gives.
AdvisoryInputs ==
    /\ module_list = {BUILD}
    /\ LOAD_ZONES = {"A", "B"}
    /\ PERIODS = {1}
    /\ TIMEPOINTS = {1}
    /\ tp_period = [t \in {1} |-> 1]
    /\ TRANSMISSION_LINES = <<"T1">>
    /\ trans_lz1 = [tx \in {"T1"} |-> "A"]
    /\ trans_lz2 = [tx \in {"T1"} |-> "B"]
    /\ existing_trans_cap = [tx \in {"T1"} |-> 50]
    /\ trans_new_build_allowed = [tx \in {"T1"} |-> TRUE]
    /\ trans_capital_cost_per_mw_km = 1
    /\ trans_length_km = [tx \in {"T1"} |-> 100]
    /\ interest_rate = 5
    /\ trans_derating_factor \in [{"T1"} -> {-5, 0, 5, MultScale, 20}]
    /\ trans_terrain_multiplier \in [{"T1"} -> {-10, 2, 5, MultScale, 30, 40}]
    /\ trans_lifetime_yrs = 20
    /\ lost_load_cost = <<>>
    /\ existing_local_td = [z \in Zones |-> 0]
    /\ local_td_annual_cost_per_mw = [z \in Zones |-> 0]
    /\ distribution_loss_rate = 53
    /\ zone_expected_coincident_peak_demand = <<>>
    /\ der_mw = <<>>

\* Two zones that may leave load unserved, with or without their local T&D;
\* lost_load_cost.csv is absent or gives the penalty.
UnservedInputs ==
    /\ module_list \in {{UNSERVED_LOAD}, {UNSERVED_LOAD, LOCAL_TD}}
    /\ LOAD_ZONES = {"A", "B"}
    /\ PERIODS = {1}
    /\ TIMEPOINTS = {1}
    /\ tp_period = [t \in {1} |-> 1]
    /\ TRANSMISSION_LINES = <<>>
    /\ trans_lz1 = <<>>
    /\ trans_lz2 = <<>>
    /\ existing_trans_cap = <<>>
    /\ trans_new_build_allowed = <<>>
    /\ trans_capital_cost_per_mw_km = 1
    /\ trans_length_km = <<>>
    /\ interest_rate = 5
    /\ trans_derating_factor = <<>>
    /\ trans_terrain_multiplier = <<>>
    /\ trans_lifetime_yrs = 20
    /\ lost_load_cost \in {<<>>, <<0>>, <<2>>}
    /\ existing_local_td = [z \in {"A", "B"} |-> 10]
    /\ local_td_annual_cost_per_mw =
           [z \in {"A", "B"} |-> IF z = "A" THEN 0 ELSE 5]
    /\ distribution_loss_rate = 53
    /\ zone_expected_coincident_peak_demand = <<>>
    /\ der_mw = [c \in {LateTerm} |-> [zt \in {"A", "B"} \X {1} |-> 0]]

\* No model is built in the process that exports the inputs.
NoModel ==
    /\ module_list = {}
    /\ LOAD_ZONES = {}
    /\ PERIODS = {}
    /\ TIMEPOINTS = {}
    /\ tp_period = <<>>
    /\ TRANSMISSION_LINES = <<>>
    /\ trans_lz1 = <<>>
    /\ trans_lz2 = <<>>
    /\ existing_trans_cap = <<>>
    /\ trans_new_build_allowed = <<>>
    /\ trans_capital_cost_per_mw_km = 1
    /\ trans_length_km = <<>>
    /\ interest_rate = 5
    /\ trans_derating_factor = <<>>
    /\ trans_terrain_multiplier = <<>>
    /\ trans_lifetime_yrs = 20
    /\ lost_load_cost = <<>>
    /\ existing_local_td = <<>>
    /\ local_td_annual_cost_per_mw = <<>>
    /\ distribution_loss_rate = 53
    /\ zone_expected_coincident_peak_demand = <<>>
    /\ der_mw = <<>>

\* Any rows of the table transmission_lines, exported for one scenario.
ExportInputs ==
    /\ NoModel
    /\ \E n \in 0..MaxDbRows :
           db_transmission_lines \in [1..n -> ZoneIds \X ZoneIds]
    /\ config = <<[rps_scenario_id |-> None,
                   ca_policies_scenario_id |-> None,
                   enable_planning_reserves |-> FALSE]>>

\* Up to MaxCalls calls of query_db, each for any scenario, on one table.
ScenarioInputs ==
    /\ NoModel
    /\ db_transmission_lines = <<<<1, 2>>>>
    /\ \E n \in 1..MaxCalls : config \in [1..n -> Scenarios]

Init ==
    /\ \/ /\ \/ TopologyInputs \/ LedgerInputs \/ DistributedInputs
             \/ CombinedInputs \/ FinanceInputs \/ AdvisoryInputs
             \/ UnservedInputs
          /\ db_transmission_lines = <<>>
          /\ config = <<>>
          /\ stage = "abstract"
       \/ /\ ExportInputs \/ ScenarioInputs
          /\ stage = "export"
    /\ params = <<>>
    /\ modules = modules_imported
    /\ modules_txt = <<>>
    /\ transmission_lines_csv = <<>>
    /\ transmission_csv = <<>>
    /\ called = {}
    /\ Zone_Power_Injections = <<>>
    /\ Zone_Power_Withdrawals = <<"zone_demand_mw">>
    /\ Distributed_Power_Injections = <<>>
    /\ Distributed_Power_Withdrawals = <<>>
    /\ Cost_Components_Per_Period = <<>>
    /\ Cost_Components_Per_TP = <<>>
    /\ BuildTx = <<>>
    /\ BuildLocalTD = <<>>
    /\ WithdrawFromCentralGrid = <<>>
    /\ UnservedLoad = <<>>

Next ==
    \/ define_dynamic_lists
    \/ define_components_build
    \/ define_components_local_td
    \/ define_components_unserved_load
    \/ define_components_external
    \/ define_dynamic_components
    \/ create_instance
    \/ solve
    \/ post_solve
    \/ query_db

Spec == Init /\ [][Next]_vars

\* The same, with a module that registers after define_dynamic_components.
NextLate == Next \/ late_register

SpecLate == Init /\ [][NextLate]_vars

----------------------------------------------------------------------------
\* Properties.

Constructed == stage \in {"instance", "solved"}
Solved == stage = "solved"
BuildSolved == Solved /\ BUILD \in module_list
LocalTDSolved == Solved /\ LOCAL_TD \in module_list
Compiled == Called(LOCAL_TD, "define_dynamic_components")

SameEndPoints(tx1, tx2) ==
    {trans_lz1[tx1], trans_lz2[tx1]} = {trans_lz1[tx2], trans_lz2[tx2]}

FirstPeriod(p) == \A q \in PERIODS : p <= q
PreviousPeriod(p) == CHOOSE q \in PERIODS :
                         q < p /\ \A r \in PERIODS : r < p => r <= q

\* The build of (tx, b), zero where there is no build variable.
BuildOrZero(tx, b) ==
    IF <<tx, b>> \in DOMAIN BuildTx THEN BuildTx[<<tx, b>>] ELSE 0

Perms(s) == {t \in [DOMAIN s -> Range(s)] : Permutation(s, t)}

\* C1 (as claimed): a model built from N transmission lines has exactly 2N
\* directional pairs, and both directions of every line map back to the line.
C1_Original ==
    (Constructed /\ BUILD \in module_list) =>
        /\ Cardinality(DIRECTIONAL_TX) = 2 * Len(TRANSMISSION_LINES)
        /\ \A tx \in Lines :
              /\ trans_d_line[<<trans_lz1[tx], trans_lz2[tx]>>] = tx
              /\ trans_d_line[<<trans_lz2[tx], trans_lz1[tx]>>] = tx

\* C2 (as claimed): no model is ever constructed from a table in which two
\* lines connect the same unordered pair of load zones.
C2_Original ==
    (Constructed /\ BUILD \in module_list) =>
        \A tx1, tx2 \in Lines : SameEndPoints(tx1, tx2) => tx1 = tx2

\* C3: TxCapacityNameplate[tx,p] is existing_trans_cap[tx] plus the builds of
\* the buildable years at or before p: it starts from the existing capacity,
\* each period adds exactly that period's build, a (tx,b) without a build
\* variable adds zero, and the build variables are those of the lines that
\* allow new builds at a finite cost.
C3_NameplateLedger ==
    BuildSolved =>
        \A tx \in Lines, p \in PERIODS :
            /\ TxCapacityNameplate(tx, p) =
                 (IF FirstPeriod(p) THEN existing_trans_cap[tx]
                  ELSE TxCapacityNameplate(tx, PreviousPeriod(p)))
                 + BuildOrZero(tx, p)
            /\ <<tx, p>> \in DOMAIN BuildTx <=>
                 (trans_new_build_allowed[tx] /\
                  trans_capital_cost_per_mw_km # inf)

\* C3 witness: existing 50, builds 10 then 5, capacity 60 then 65.
C3_Witness ==
    /\ BuildSolved
    /\ \E tx \in Lines :
          /\ existing_trans_cap[tx] = 50
          /\ {<<tx, 1>>, <<tx, 2>>} \subseteq DOMAIN BuildTx
          /\ BuildTx[<<tx, 1>>] = 10 /\ BuildTx[<<tx, 2>>] = 5
          /\ TxCapacityNameplate(tx, 1) = 60
          /\ TxCapacityNameplate(tx, 2) = 65

\* C4: with the (non-negative) builds of any solution, the capacity of every
\* line and of every zone's local T&D never decreases from a period to a
\* later one.
C4_CapacityMonotone ==
    Solved =>
        /\ BUILD \in module_list =>
              \A tx \in Lines, p1 \in PERIODS, p2 \in PERIODS :
                  p1 < p2 =>
                      TxCapacityNameplate(tx, p1) <= TxCapacityNameplate(tx, p2)
        /\ LOCAL_TD \in module_list =>
              \A z \in LOAD_ZONES, p1 \in PERIODS, p2 \in PERIODS :
                  p1 < p2 => LocalTDCapacity(z, p1) <= LocalTDCapacity(z, p2)

\* C4 witness: a solution in which a line and a zone both gain capacity, the
\* line building more in the first period than in the second.
C4_Witness ==
    /\ BuildSolved /\ LocalTDSolved
    /\ \E tx \in Lines :
          /\ {<<tx, 1>>, <<tx, 2>>} \subseteq DOMAIN BuildTx
          /\ BuildTx[<<tx, 1>>] > BuildTx[<<tx, 2>>]
          /\ TxCapacityNameplate(tx, 1) < TxCapacityNameplate(tx, 2)
    /\ \E z \in LOAD_ZONES : LocalTDCapacity(z, 1) < LocalTDCapacity(z, 2)

\* C5 (as claimed): TxLineCosts[tx,p] is the build of period p alone, not the
\* builds accumulated up to p, times trans_cost_annual[tx].
C5_Original ==
    BuildSolved =>
        \A tx \in Lines, p \in PERIODS :
            TxLineCosts(tx, p) = BuildOrZero(tx, p) * trans_cost_annual(tx)

\* C5 (amended): TxLineCosts[tx,p] is the sum of the builds of tx in all the
\* periods at or before p, times trans_cost_annual[tx], when tx can be built
\* in p, and zero when it cannot: the cost of a build recurs in every later
\* period.
C5_CumulativeCost ==
    BuildSolved =>
        \A tx \in Lines, p \in PERIODS :
            TxLineCosts(tx, p) =
                IF trans_new_build_allowed[tx] /\
                   trans_capital_cost_per_mw_km # inf
                THEN (IF FirstPeriod(p) THEN 0
                      ELSE TxLineCosts(tx, PreviousPeriod(p)))
                     + BuildTx[<<tx, p>>] * trans_cost_annual(tx)
                ELSE 0

\* C5 witness: a line built in period 1 still costs in period 2, where
\* nothing more is built.
C5_Witness ==
    /\ BuildSolved
    /\ \E tx \in Lines :
          /\ {<<tx, 1>>, <<tx, 2>>} \subseteq DOMAIN BuildTx
          /\ BuildTx[<<tx, 1>>] = 10 /\ BuildTx[<<tx, 2>>] = 0
          /\ trans_cost_annual(tx) > 0
          /\ TxLineCosts(tx, 2) = 10 * trans_cost_annual(tx)

\* C6: whatever order the terms were registered in, the balance is the same:
\* every permutation of the two lists gives, for every (zone, timepoint), the
\* same equality, and after the solve the same values on both sides.
C6_OrderIndependent ==
    Compiled =>
        \A inj \in Perms(Distributed_Power_Injections),
           wd \in Perms(Distributed_Power_Withdrawals) :
            /\ BalanceRule(inj, wd) = Distributed_Energy_Balance
            /\ Solved =>
                 \A zt \in ZONE_TIMEPOINTS :
                    /\ Value(SumTerms(inj), zt[1], zt[2]) =
                         Value(Distributed_Energy_Balance[zt].lhs, zt[1], zt[2])
                    /\ Value(SumTerms(wd), zt[1], zt[2]) =
                         Value(Distributed_Energy_Balance[zt].rhs, zt[1], zt[2])

\* C6 witness: the module outside the repository registered its injection
\* before local_td did, and injections of 5 and 10 MW meet a withdrawal of 15.
C6_Witness ==
    /\ LocalTDSolved
    /\ Distributed_Power_Injections =
           <<"DistributedInjection", "InjectIntoDistributedGrid">>
    /\ Distributed_Power_Withdrawals = <<"DistributedWithdrawal">>
    /\ Component("DistributedInjection", "A", 1) = 5 * Scale
    /\ Component("InjectIntoDistributedGrid", "A", 1) = 10 * Scale
    /\ Component("DistributedWithdrawal", "A", 1) = 15 * Scale

\* C7 (as claimed): once local_td.define_dynamic_components has run, the two
\* lists of the distributed node never change again (a registration fails).
C7_Original ==
    [][Compiled =>
          UNCHANGED <<Distributed_Power_Injections,
                      Distributed_Power_Withdrawals>>]_vars

\* C8: the compiled balance has one equality for every (zone, timepoint)
\* pair and no other; each side holds every registered term of its list,
\* as many times as it was registered, and nothing else; in a solution both
\* sides have the value of the sum of their list's components, and are equal.
C8_BalanceComplete ==
    Compiled =>
        /\ DOMAIN Distributed_Energy_Balance = LOAD_ZONES \X TIMEPOINTS
        /\ \A zt \in LOAD_ZONES \X TIMEPOINTS :
              LET c == Distributed_Energy_Balance[zt]
                  DPI == Distributed_Power_Injections
                  DPW == Distributed_Power_Withdrawals
              IN  /\ BagToSet(c.lhs) = Range(DPI)
                  /\ BagToSet(c.rhs) = Range(DPW)
                  /\ \A x \in Range(DPI) : CopiesIn(x, c.lhs) = Count(DPI, x)
                  /\ \A x \in Range(DPW) : CopiesIn(x, c.rhs) = Count(DPW, x)
                  /\ Solved =>
                       /\ Value(c.lhs, zt[1], zt[2]) =
                            SumSet(DOMAIN DPI, [i \in DOMAIN DPI |->
                                       Component(DPI[i], zt[1], zt[2])])
                       /\ Value(c.rhs, zt[1], zt[2]) =
                            SumSet(DOMAIN DPW, [i \in DOMAIN DPW |->
                                       Component(DPW[i], zt[1], zt[2])])
                       /\ Value(c.lhs, zt[1], zt[2]) = Value(c.rhs, zt[1], zt[2])

\* C8 witness: a solved model of several timepoints whose balance has two
\* injection terms and a withdrawal term, with power flowing.
C8_Witness ==
    /\ LocalTDSolved
    /\ Cardinality(ZONE_TIMEPOINTS) > 1
    /\ Len(Distributed_Power_Injections) = 2
    /\ Len(Distributed_Power_Withdrawals) = 1
    /\ \E zt \in ZONE_TIMEPOINTS :
          Value(Distributed_Energy_Balance[zt].rhs, zt[1], zt[2]) > 0

\* C9: in a solution, the power withdrawn from the central grid at (z,t) is
\* at least zero and at most the local T&D capacity of z in the period of t.
C9_WithdrawBounded ==
    LocalTDSolved =>
        \A z \in LOAD_ZONES, t \in TIMEPOINTS :
            /\ 0 <= WithdrawFromCentralGrid[<<z, t>>]
            /\ WithdrawFromCentralGrid[<<z, t>>]
                 <= LocalTDCapacity(z, tp_period[t])

\* C9 witness: a positive withdrawal that uses the whole capacity, part of
\* which was built.
C9_Witness ==
    /\ LocalTDSolved
    /\ \E z \in LOAD_ZONES, t \in TIMEPOINTS :
          /\ WithdrawFromCentralGrid[<<z, t>>] > 0
          /\ WithdrawFromCentralGrid[<<z, t>>] = LocalTDCapacity(z, tp_period[t])
          /\ LocalTDCapacity(z, tp_period[t]) > existing_local_td[z]

C11_RegisteredOnce ==
    Called(LOCAL_TD, "define_components") =>
        /\ Count(Zone_Power_Withdrawals, "WithdrawFromCentralGrid") = 1
        /\ Count(Zone_Power_Injections, "WithdrawFromCentralGrid") = 0
        /\ Count(Distributed_Power_Injections, "WithdrawFromCentralGrid") = 0
        /\ Count(Distributed_Power_Injections, "InjectIntoDistributedGrid") = 1
        /\ Count(Zone_Power_Withdrawals, "InjectIntoDistributedGrid") = 0
        /\ Count(Distributed_Power_Withdrawals, "InjectIntoDistributedGrid") = 0

\* local_td.define_components has run in a model whose injection and
\* withdrawal lists also hold the terms of other modules.
C11_Witness ==
    /\ Called(LOCAL_TD, "define_components")
    /\ Called(UNSERVED_LOAD, "define_components")
    /\ Zone_Power_Injections = <<"UnservedLoad">>
    /\ Zone_Power_Withdrawals = <<"zone_demand_mw", "WithdrawFromCentralGrid">>
    /\ Distributed_Power_Injections = <<"InjectIntoDistributedGrid">>

C13_Original ==
    (/\ Called(LOCAL_TD, "define_dynamic_lists")
     /\ Called(LOCAL_TD, "define_components")) =>
        /\ Count(Distributed_Power_Withdrawals, "zone_demand_mw") >= 1
        /\ Count(Zone_Power_Withdrawals, "zone_demand_mw") = 0

\* C14: a line with trans_new_build_allowed false has no build variable in
\* any period, and its nameplate capacity is existing_trans_cap in every
\* period.
C14_NonBuildableFixed ==
    BuildSolved =>
        \A tx \in Lines :
            ~trans_new_build_allowed[tx] =>
                \A p \in PERIODS :
                    /\ <<tx, p>> \notin DOMAIN BuildTx
                    /\ TxCapacityNameplate(tx, p) = existing_trans_cap[tx]

\* T1 cannot be built and keeps its 50 MW while T2 is built in both periods.
C14_Witness ==
    /\ BuildSolved
    /\ TRANSMISSION_LINES = <<"T1", "T2">>
    /\ ~trans_new_build_allowed["T1"] /\ trans_new_build_allowed["T2"]
    /\ existing_trans_cap["T1"] = 50
    /\ \A p \in PERIODS :
          <<"T2", p>> \in DOMAIN BuildTx /\ BuildTx[<<"T2", p>>] > 0

\* C15: the annual cost per MW of a line is its capital cost per MW-km times
\* its terrain multiplier times its length times (capital recovery factor +
\* fixed O&M fraction): the capital part plus the O&M part.  With 1000 $ per
\* MW-km, multiplier 1, 100 km, 5 % over 20 years (crf 0.08024) and O&M 0.03
\* it is 11,024 $ per MW-year.
C15_AnnualCost ==
    (Constructed /\ BUILD \in module_list /\ trans_capital_cost_per_mw_km # inf)
    =>
    \A tx \in Lines :
        LET overnight == trans_capital_cost_per_mw_km
                             * trans_terrain_multiplier[tx] * trans_length_km[tx]
        IN  /\ trans_cost_annual(tx) =
                   overnight * crf(interest_rate, trans_lifetime_yrs)
                     + overnight * trans_fixed_om_fraction
            /\ (/\ trans_capital_cost_per_mw_km = 1
                /\ trans_terrain_multiplier[tx] = MultScale
                /\ trans_length_km[tx] = 100
                /\ interest_rate = 5 /\ trans_lifetime_yrs = 20)
               => /\ crf(interest_rate, trans_lifetime_yrs) = 8024
                  /\ trans_cost_annual(tx)
                         = 11024 * ((CrfScale * MultScale) \div 1000)

\* A constructed model with a 100 km line over terrain of multiplier 1.5.
C15_Witness ==
    /\ Constructed /\ BUILD \in module_list
    /\ TRANSMISSION_LINES = <<"T1">>
    /\ trans_capital_cost_per_mw_km = 1
    /\ trans_terrain_multiplier["T1"] = 15
    /\ trans_length_km["T1"] = 100
    /\ interest_rate = 5 /\ trans_lifetime_yrs = 20
    /\ trans_cost_annual("T1") = 16536000

Attempted == stage # "abstract"

\* The ranges that the documentation of the parameters gives: 0 to 1 for
\* trans_derating_factor, 0.5 to 3 for trans_terrain_multiplier.
OutsideAdvisoryRange(tx) ==
    \/ trans_derating_factor[tx] < 0
    \/ trans_derating_factor[tx] > MultScale
    \/ 2 * trans_terrain_multiplier[tx] < MultScale
    \/ trans_terrain_multiplier[tx] > 3 * MultScale

\* C17 (as claimed): a trans_derating_factor outside 0..1 or a
\* trans_terrain_multiplier outside 0.5..3 does not block the construction of
\* the model.
C17_Original ==
    (BUILD \in module_list /\ Attempted
       /\ \E tx \in Lines : OutsideAdvisoryRange(tx))
    => stage # "error"

\* C17 (amended): a trans_derating_factor outside 0..1, or a negative
\* trans_terrain_multiplier, is rejected when the instance is constructed; a
\* trans_terrain_multiplier outside 0.5..3 that is not negative does not
\* block the construction.
C17_DomainsEnforced ==
    (BUILD \in module_list /\ Attempted) =>
        /\ (\E tx \in Lines :
                \/ trans_derating_factor[tx] < 0
                \/ trans_derating_factor[tx] > MultScale
                \/ trans_terrain_multiplier[tx] < 0)
            => stage = "error"
        /\ (\A tx \in Lines :
                /\ trans_derating_factor[tx] >= 0
                /\ trans_derating_factor[tx] <= MultScale
                /\ trans_terrain_multiplier[tx] >= 0)
            => stage # "error"

\* A model is constructed with a terrain multiplier of 4, and the annual cost
\* of the line is computed with it.
C17_Witness ==
    /\ Constructed /\ BUILD \in module_list
    /\ TRANSMISSION_LINES = <<"T1">>
    /\ trans_terrain_multiplier["T1"] = 40
    /\ trans_derating_factor["T1"] = 5
    /\ OutsideAdvisoryRange("T1")
    /\ trans_cost_annual("T1") = 44096000

\* No line has the two zones as its end points, in either order.
NoLineBetween(zone_from, zone_to) ==
    \A tx \in Lines :
        {trans_lz1[tx], trans_lz2[tx]} # {zone_from, zone_to}

C20_UnservedLoad ==
    /\ Called(UNSERVED_LOAD, "define_components") =>
          /\ Count(Zone_Power_Injections, "UnservedLoad") = 1
          /\ Count(Zone_Power_Withdrawals, "UnservedLoad") = 0
          /\ Count(Cost_Components_Per_TP, "UnservedLoadPenalty") = 1
    /\ (Solved /\ UNSERVED_LOAD \in module_list) =>
          LET penalty == IF lost_load_cost = <<>> THEN 500
                         ELSE lost_load_cost[1]
          IN  /\ DOMAIN UnservedLoad = LOAD_ZONES \X TIMEPOINTS
              /\ \A zt \in LOAD_ZONES \X TIMEPOINTS : UnservedLoad[zt] >= 0
              /\ \A tp \in TIMEPOINTS :
                    UnservedLoadPenalty(tp) =
                        penalty * SumSet(LOAD_ZONES,
                                         [z \in LOAD_ZONES |->
                                             UnservedLoad[<<z, tp>>]])

\* Without lost_load_cost.csv, 5 MW unserved in A and 10 MW in B cost 7500.
C20_Witness ==
    /\ Solved /\ UNSERVED_LOAD \in module_list
    /\ lost_load_cost = <<>>
    /\ UnservedLoad[<<"A", 1>>] = 5
    /\ UnservedLoad[<<"B", 1>>] = 10
    /\ UnservedLoadPenalty(1) = 7500
    /\ Zone_Power_Injections = <<"UnservedLoad">>
    /\ Cost_Components_Per_TP = <<"UnservedLoadPenalty">>

\* C21: the annual cost of local T&D is charged on existing and new capacity
\* alike: LocalTDFixedCosts[p] is the sum over the zones of
\* existing_local_td[z] times the annual cost per MW of z, plus every
\* BuildLocalTD[z, b] of a period b at or before p times that cost; and
\* 'LocalTDFixedCosts' is registered once in Cost_Components_Per_Period.
C21_LocalTDCostOnAll ==
    /\ Called(LOCAL_TD, "define_components") =>
          Count(Cost_Components_Per_Period, "LocalTDFixedCosts") = 1
    /\ LocalTDSolved =>
          \A p \in PERIODS :
              LocalTDFixedCosts(p) =
                  SumSet(LOAD_ZONES,
                         [z \in LOAD_ZONES |->
                             existing_local_td[z]
                                 * local_td_annual_cost_per_mw[z]])
                  + SumSet(LOAD_ZONES \X {b \in PERIODS : b <= p},
                           [y \in LOAD_ZONES \X PERIODS |->
                               BuildLocalTD[y]
                                   * local_td_annual_cost_per_mw[y[1]]])

\* Two zones with 10 MW each, at 2 and 3 per MW; A builds 5 MW in period 1
\* and B 10 MW in period 2: 60 in period 1 and 90 in period 2.
C21_Witness ==
    /\ LocalTDSolved
    /\ LOAD_ZONES = {"A", "B"} /\ PERIODS = {1, 2}
    /\ existing_local_td = [z \in {"A", "B"} |-> 10]
    /\ local_td_annual_cost_per_mw["A"] = 2
    /\ local_td_annual_cost_per_mw["B"] = 3
    /\ BuildLocalTD[<<"A", 1>>] = 5 /\ BuildLocalTD[<<"A", 2>>] = 0
    /\ BuildLocalTD[<<"B", 1>>] = 0 /\ BuildLocalTD[<<"B", 2>>] = 10
    /\ LocalTDFixedCosts(1) = 60
    /\ LocalTDFixedCosts(2) = 90

\* C22: local T&D capacity and transmission capacity accumulate alike: for a
\* zone and a line with the same existing capacity and the same build in
\* every period, every period being a build year of the line,
\* LocalTDCapacity[z, p] = TxCapacityNameplate[tx, p] in every period p.
C22_SameLedger ==
    (Solved /\ BUILD \in module_list /\ LOCAL_TD \in module_list) =>
        \A tx \in Lines, z \in LOAD_ZONES :
            (/\ existing_trans_cap[tx] = existing_local_td[z]
             /\ \A b \in PERIODS :
                   /\ <<tx, b>> \in TRANS_BLD_YRS
                   /\ BuildTx[<<tx, b>>] = BuildLocalTD[<<z, b>>])
            => \A p \in PERIODS :
                   LocalTDCapacity(z, p) = TxCapacityNameplate(tx, p)

\* Line T1 and zone A both start at 10 MW and build 5 MW and then 10 MW.
C22_Witness ==
    /\ Solved /\ BUILD \in module_list /\ LOCAL_TD \in module_list
    /\ PERIODS = {1, 2}
    /\ existing_trans_cap["T1"] = 10 /\ existing_local_td["A"] = 10
    /\ BuildTx = [y \in {"T1"} \X {1, 2} |-> 5 * y[2]]
    /\ BuildLocalTD[<<"A", 1>>] = 5 /\ BuildLocalTD[<<"A", 2>>] = 10
    /\ LocalTDCapacity("A", 1) = 15 /\ TxCapacityNameplate("T1", 1) = 15
    /\ LocalTDCapacity("A", 2) = 25 /\ TxCapacityNameplate("T1", 2) = 25

\* C23: in a solved model the available capacity of every line in every
\* period is its nameplate capacity derated by trans_derating_factor: it
\* never exceeds the nameplate capacity, is never negative, equals the
\* nameplate capacity at a factor of 1 and is 0 at a factor of 0.
C23_DeratedCapacity ==
    BuildSolved =>
        \A tx \in Lines, p \in PERIODS :
            LET nameplate == existing_trans_cap[tx]
                               + SumSet({b \in PERIODS : b <= p},
                                        [b \in PERIODS |-> BuildOrZero(tx, b)])
            IN  /\ TxCapacityNameplateAvailable(tx, p)
                      = nameplate * trans_derating_factor[tx]
                /\ TxCapacityNameplateAvailable(tx, p) <= nameplate * MultScale
                /\ TxCapacityNameplateAvailable(tx, p) >= 0
                /\ trans_derating_factor[tx] = MultScale =>
                      TxCapacityNameplateAvailable(tx, p)
                          = TxCapacityNameplate(tx, p) * MultScale
                /\ trans_derating_factor[tx] = 0 =>
                      TxCapacityNameplateAvailable(tx, p) = 0

\* A line of 50 MW that builds 10 MW, derated by 0.5: 30 MW are available.
C23_Witness ==
    /\ BuildSolved
    /\ TRANSMISSION_LINES = <<"T1">> /\ PERIODS = {1}
    /\ trans_derating_factor["T1"] = 5
    /\ existing_trans_cap["T1"] = 50
    /\ BuildTx[<<"T1", 1>>] = 10
    /\ TxCapacityNameplate("T1", 1) = 60
    /\ TxCapacityNameplateAvailable("T1", 1) = 30 * MultScale

\* C24: in every period TxFixedCosts[p] is the sum of TxLineCosts[tx, p] over
\* the rows of TRANSMISSION_LINES, and 'TxFixedCosts' is in
\* Cost_Components_Per_Period exactly once when build.define_components has
\* run.
C24_FixedCostsSum ==
    /\ Called(BUILD, "define_components") =>
          Count(Cost_Components_Per_Period, "TxFixedCosts") = 1
    /\ BuildSolved =>
          \A p \in PERIODS :
              TxFixedCosts(p) =
                  SumSet(DOMAIN TRANSMISSION_LINES,
                         [i \in DOMAIN TRANSMISSION_LINES |->
                             TxLineCosts(TRANSMISSION_LINES[i], p)])

\* Two lines that both build 5 MW, of 100 km and 1 km: the cost of period 2
\* is the cost of both.
C24_Witness ==
    /\ BuildSolved
    /\ TRANSMISSION_LINES = <<"T1", "T2">>
    /\ Cost_Components_Per_Period = <<"TxFixedCosts">>
    /\ trans_capital_cost_per_mw_km = 1
    /\ BuildTx = [y \in {"T1", "T2"} \X {1, 2} |->
                     IF y \in {<<"T1", 1>>, <<"T2", 2>>} THEN 5 ELSE 0]
    /\ TxLineCosts("T1", 2) = 55120000
    /\ TxLineCosts("T2", 2) = 551200
    /\ TxFixedCosts(2) = 55671200

\* C25: the table that post_solve writes has one row for each (line, period)
\* pair and no other; the BuildTx field of a row is the solved build where
\* the pair has a build variable and '.' where it has none, and the
\* TxCapacityNameplate, TxCapacityNameplateAvailable and TotalAnnualCost
\* fields are the values of the expressions of the model for the pair.
C25_TransmissionReport ==
    Called(BUILD, "post_solve") =>
        /\ DOMAIN transmission_csv = Lines \X PERIODS
        /\ \A y \in Lines \X PERIODS :
              LET row == transmission_csv[y]
                  nameplate == existing_trans_cap[y[1]]
                                 + SumSet({b \in PERIODS : b <= y[2]},
                                          [b \in PERIODS |->
                                              BuildOrZero(y[1], b)])
              IN  /\ IF y \in TRANS_BLD_YRS
                     THEN row.BuildTx = BuildTx[y]
                     ELSE row.BuildTx = "."
                  /\ row.TxCapacityNameplate = nameplate
                  /\ row.TxCapacityNameplateAvailable
                        = nameplate * trans_derating_factor[y[1]]
                  /\ row.TotalAnnualCost = TxLineCosts(y[1], y[2])

\* The report of a model in which T1 cannot be built and T2 builds 5 MW in
\* each period.
C25_Witness ==
    /\ Called(BUILD, "post_solve")
    /\ TRANSMISSION_LINES = <<"T1", "T2">> /\ PERIODS = {1, 2}
    /\ DOMAIN BuildTx = {"T2"} \X {1, 2}
    /\ transmission_csv[<<"T1", 1>>].BuildTx = "."
    /\ transmission_csv[<<"T1", 2>>].TotalAnnualCost = 0
    /\ transmission_csv[<<"T2", 1>>].BuildTx = 5
    /\ transmission_csv[<<"T2", 2>>].BuildTx = 5
    /\ transmission_csv[<<"T2", 2>>].TxCapacityNameplate
          = existing_trans_cap["T2"] + 10
    /\ transmission_csv[<<"T2", 2>>].TotalAnnualCost = 1102400

\* C26: in a constructed model the lookup is symmetric and agrees with the
\* neighbour sets: with (a, b) also (b, a) is in DIRECTIONAL_TX, both resolve
\* to the same line, the end points of that line are a and b, and a is a
\* neighbour of b exactly when b is a neighbour of a.
C26_LookupSymmetric ==
    (Constructed /\ BUILD \in module_list) =>
        /\ \A d \in DIRECTIONAL_TX :
              /\ <<d[2], d[1]>> \in DIRECTIONAL_TX
              /\ trans_d_line[d] = trans_d_line[<<d[2], d[1]>>]
              /\ {trans_lz1[trans_d_line[d]], trans_lz2[trans_d_line[d]]}
                    = {d[1], d[2]}
              /\ d[1] \in TX_CONNECTIONS_TO_ZONE(d[2])
        /\ \A a \in LOAD_ZONES, b \in LOAD_ZONES :
              a \in TX_CONNECTIONS_TO_ZONE(b) <=> b \in TX_CONNECTIONS_TO_ZONE(a)

\* The lines A-B and C-B: B has the neighbours A and C, and (B, C) resolves
\* to the line entered as C-B.
C26_Witness ==
    /\ Constructed /\ BUILD \in module_list
    /\ TRANSMISSION_LINES = <<"T1", "T2">>
    /\ trans_lz1 = [tx \in {"T1", "T2"} |-> IF tx = "T1" THEN "A" ELSE "C"]
    /\ trans_lz2 = [tx \in {"T1", "T2"} |-> "B"]
    /\ trans_d_line[<<"B", "C">>] = "T2"
    /\ trans_d_line[<<"C", "B">>] = "T2"
    /\ TX_CONNECTIONS_TO_ZONE("B") = {"A", "C"}
    /\ TX_CONNECTIONS_TO_ZONE("A") = {"B"}

\* C27: existing transmission capacity never costs anything: in a solved
\* model TxLineCosts[tx, p] is the builds of tx up to p times
\* trans_cost_annual[tx], whatever existing_trans_cap[tx] is, and it is 0 in
\* every period when tx cannot be built, when the capital cost is infinite
\* (no build year at all) and when every build of tx up to p is zero.
C27_ExistingCostsNothing ==
    BuildSolved =>
        /\ trans_capital_cost_per_mw_km = inf => TRANS_BLD_YRS = {}
        /\ \A tx \in Lines, p \in PERIODS :
              LET built == SumSet({b \in PERIODS : b <= p},
                                  [b \in PERIODS |-> BuildOrZero(tx, b)])
              IN  /\ (\/ ~trans_new_build_allowed[tx]
                      \/ trans_capital_cost_per_mw_km = inf
                      \/ built = 0)
                     => TxLineCosts(tx, p) = 0
                  /\ (/\ trans_new_build_allowed[tx]
                      /\ trans_capital_cost_per_mw_km # inf)
                     => TxLineCosts(tx, p) = built * trans_cost_annual(tx)

\* T1 has 50 MW, may be built and is not: it costs nothing, while T2, which
\* has no capacity and builds 5 MW, costs.
C27_Witness ==
    /\ BuildSolved
    /\ TRANSMISSION_LINES = <<"T1", "T2">> /\ PERIODS = {1, 2}
    /\ existing_trans_cap["T1"] = 50 /\ existing_trans_cap["T2"] = 0
    /\ trans_new_build_allowed["T1"] /\ trans_new_build_allowed["T2"]
    /\ trans_capital_cost_per_mw_km = 1
    /\ BuildTx[<<"T1", 1>>] = 0 /\ BuildTx[<<"T1", 2>>] = 0
    /\ BuildTx[<<"T2", 1>>] = 5
    /\ TxLineCosts("T1", 1) = 0 /\ TxLineCosts("T1", 2) = 0
    /\ TxLineCosts("T2", 1) = 551200

C29_Original ==
    (stage = "export" /\ params # <<>>) =>
        /\ \A m \in Range(modules_txt) : Count(modules_txt, m) = 1
        /\ RPS_UNBUNDLED \in Range(modules_txt) =>
               params[1].rps_scenario_id # None
        /\ CA_POLICIES \in Range(modules_txt) =>
               params[1].ca_policies_scenario_id # None
        /\ PLANNING_RESERVES \in Range(modules_txt) =>
               params[1].enable_planning_reserves

\* C30: transmission_lines.csv as query_db writes it has no self-loop and no
\* two rows for one pair of load zones in opposite order: its rows are the
\* rows of the table with start_load_zone_id < end_load_zone_id, each once,
\* so that a table holding (A, B) and (B, A) gives a single line.
C30_OneRowPerPair ==
    params # <<>> =>
        LET csv == transmission_lines_csv
            db == db_transmission_lines
        IN  /\ \A i \in DOMAIN csv :
                  /\ csv[i].trans_lz1 # csv[i].trans_lz2
                  /\ csv[i].TRANSMISSION_LINE[1] < csv[i].TRANSMISSION_LINE[2]
            /\ \A i, j \in DOMAIN csv :
                  ~ (/\ csv[i].trans_lz1 = csv[j].trans_lz2
                     /\ csv[i].trans_lz2 = csv[j].trans_lz1)
            /\ {csv[i].trans_dbid : i \in DOMAIN csv} =
                  {k \in DOMAIN db : db[k][1] < db[k][2]}
            /\ Len(csv) = Cardinality({k \in DOMAIN db : db[k][1] < db[k][2]})

\* The table holds the line 1-2 and its reverse 2-1: one row is exported.
C30_Witness ==
    /\ params # <<>>
    /\ db_transmission_lines = <<<<1, 2>>, <<2, 1>>>>
    /\ Len(transmission_lines_csv) = 1
    /\ transmission_lines_csv[1].trans_lz1 = "B"
    /\ transmission_lines_csv[1].trans_lz2 = "A"

====
